---- MODULE Spec2Model ----
(***************************************************************************)
(* Model of the syncserial protocol decoder (src/syncserial/pd.py).        *)
(*                                                                         *)
(* The decoder is one sequential loop, Decoder.decode: it asks the host    *)
(* for the next clock edge (self.wait), and either runs the loop body on   *)
(* the edge delivered, or, when wait raises because the samples are        *)
(* exhausted, runs the except handler.  The handler re-raises only inside  *)
(* `if self.nibblecount > 0`; otherwise control falls out of the handler   *)
(* into the loop body with the previous iteration's (clk, sda) and         *)
(* self.samplenum.                                                         *)
(*                                                                         *)
(* Host behaviour assumed (libsigrokdecode): wait returns clock edges with *)
(* strictly increasing sample numbers and alternating clock level; it sets *)
(* self.samplenum only when it returns an edge; once the samples are       *)
(* exhausted every later call raises again.                                *)
(***************************************************************************)
EXTENDS Integers, Sequences, FiniteSets, TLC

VARIABLES
    clock_edge,         \* options['clock_edge']: "rising" | "falling"
    wordlen,            \* options['bits']
    lsbfirst,           \* options['bitorder'] == 'lsb first'
    source,             \* which edge streams the sample source may deliver
    period,             \* steady source: samples after an active, an inactive edge
    samplenum,          \* self.samplenum, set by wait
    clk,                \* local clk of decode (Unbound before the first edge)
    sda,                \* local sda of decode
    eof,                \* the sample source has signalled exhaustion
    pc,                 \* "run" | "EOFError" | "UnboundLocalError"
    lastsamplenum,      \* self.lastsamplenum
    bitstartsample,     \* self.bitstartsample
    lastbit,            \* self.lastbit
    bitlencount,        \* self.bitlencount
    bitlensum,          \* self.bitlensum
    nibblecount,        \* self.nibblecount
    nibble,             \* self.nibble
    nibblestartsample,  \* self.nibblestartsample
    out,                \* the annotations put to out_ann, in order
    others,             \* what was put to out_python, out_binary, out_bitrate
    wbits,              \* history: the bits folded into the in-progress word
    log,                \* history: one record per element of out
    stale,              \* history: loop bodies run on a stale active edge
    turn,               \* history: parity of the handler passes that did not raise
    inits,              \* history: samples of the edges that took lines 191-193
    sampled,            \* history: the data levels wait returned at active edges
    nibble2,            \* self.nibble of the run with the other bitorder
    out2                \* the annotations of the run with the other bitorder

vars == <<clock_edge, wordlen, lsbfirst, source, samplenum, clk, sda, eof, pc,
          lastsamplenum, bitstartsample, lastbit, bitlencount, bitlensum,
          nibblecount, nibble, nibblestartsample, out, wbits, log, stale,
          turn, period, others, inits, sampled, nibble2, out2>>

options == <<clock_edge, wordlen, lsbfirst, source, period>>

(* ------------------------------ bounds -------------------------------- *)

\* Largest sample number of an edge in the unconstrained streams.
MaxSample == 9
\* Word widths 1..MaxWordLen are explored besides the declared default.
MaxWordLen == 3
\* Loop bodies on a stale active edge explored after exhaustion.
MaxStale == 3
\* Regular clock: samples between consecutive edges.
HalfPeriod == 5
\* Regular clock: extra samples of a paused inactive half period.
Pause == 40
\* Largest sample number of an edge in the regular streams.
MaxRegularSample == 100
\* Steady clock: the gaps after an active and after an inactive edge are
\* drawn from 1..MaxHalf.
MaxHalf == 3
\* Steady clock: clock periods delivered at most.
MaxSteadyPeriods == 6

(* ----------------------- declared option values ----------------------- *)

DefaultBits == 8
DefaultClockEdge == "rising"
ClockEdges == {"rising", "falling"}
Unbound == 2

(* --------------------------- pure helpers ----------------------------- *)

RECURSIVE BitOr(_, _)
BitOr(a, b) ==
    IF a = 0 THEN b
    ELSE IF b = 0 THEN a
    ELSE (IF a % 2 = 1 \/ b % 2 = 1 THEN 1 ELSE 0) + 2 * BitOr(a \div 2, b \div 2)

RECURSIVE Pow2(_)
Pow2(n) == IF n = 0 THEN 1 ELSE 2 * Pow2(n - 1)

Shl(a, n) == a * Pow2(n)

\* ceil(a / b) for a >= 0, b > 0
Ceil(a, b) == (a + b - 1) \div b

\* "%0.1X" % n : the hexadecimal digits of n, most significant first, at
\* least one digit.  A digit is modelled by its value 0..15.
RECURSIVE HexText(_)
HexText(n) == IF n < 16 THEN <<n>> ELSE Append(HexText(n \div 16), n % 16)

\* str(bit) for a bit 0/1: one decimal digit.
BitText(b) == <<b>>

\* line 147
IsActive(edge, c) == (edge = "rising" /\ c = 1) \/ (edge = "falling" /\ c = 0)

AverageFloor(sum, count) == IF count = 0 THEN 0 ELSE sum \div count

\* lines 142, 152
Average(sum, count) == IF count = 0 THEN 0 ELSE Ceil(sum, count)

TruncatesGeq(count, bitlen, average) == count > 3 /\ bitlen >= average * 4

TruncatesLess(count, bitlen, average) == count > 3 /\ bitlen < average * 4

\* lines 154-155
Truncates(count, bitlen, average) == count > 3 /\ bitlen > average * 4

FoldSwapped(lsb, nib, bit, cnt) ==
    IF lsb THEN BitOr(nib, Shl(bit, cnt)) ELSE BitOr(Shl(nib, 1), bit)

FoldOffByOne(lsb, nib, bit, cnt) ==
    IF lsb THEN BitOr(Shl(nib, 1), bit) ELSE BitOr(nib, Shl(bit, cnt + 1))

\* lines 165-168 and 137-140
Fold(lsb, nib, bit, cnt) ==
    IF lsb THEN BitOr(Shl(nib, 1), bit) ELSE BitOr(nib, Shl(bit, cnt))

WordCompleteGt(cnt, width, truncate) == cnt > width \/ truncate

\* line 173
WordComplete(cnt, width, truncate) == cnt >= width \/ truncate

CountStepSingle(counted) == 1

\* lines 181 and 187
CountStep(counted) == IF counted THEN 2 ELSE 1

PutOtherWords(o, anns) == [o EXCEPT !.python = @ \o anns]

\* lines 125-193: decode calls neither putp nor putb, and puts nothing to
\* out_bitrate
PutOther(o, anns) == o

Ann(ss, es, cls, text) == [ss |-> ss, es |-> es, cls |-> cls, text |-> text]

\* History of one annotation: the number of bits it holds and their values in
\* reception order, whether the truncation branch was taken, whether the
\* except handler emitted it, the sample number s of the edge being handled
\* and the sample number prev of the active edge before it.
Meta(n, trunc, final, bits, s, prev) ==
    [n |-> n, trunc |-> trunc, final |-> final, bits |-> bits, s |-> s,
     prev |-> prev]

(* --------------------------- sample source ---------------------------- *)

NextSamples ==
    IF source = "any"
    THEN IF clk = Unbound THEN 0 .. MaxSample ELSE (samplenum + 1) .. MaxSample
    ELSE IF source = "steady"
    THEN LET cand == IF clk = Unbound THEN {period[1]}
                     ELSE IF IsActive(clock_edge, clk)
                          THEN {samplenum + period[1]}
                          ELSE {samplenum + period[2]}
         IN {s \in cand : s <= MaxSteadyPeriods * (period[1] + period[2])}
    ELSE LET cand == IF clk = Unbound THEN {0, HalfPeriod}
                     ELSE IF IsActive(clock_edge, clk)
                          THEN {samplenum + HalfPeriod}
                          ELSE {samplenum + HalfPeriod,
                                samplenum + HalfPeriod + Pause}
         IN {s \in cand : s <= MaxRegularSample}

NextLevels == IF clk = Unbound THEN {0, 1} ELSE {1 - clk}

(* ------------------------------ Init ---------------------------------- *)

InitState ==
    /\ samplenum = 0
    /\ clk = Unbound
    /\ sda = Unbound
    /\ eof = FALSE
    /\ pc = "run"
    /\ lastsamplenum = 0
    /\ bitstartsample = 0
    /\ lastbit = 0
    /\ bitlencount = 0
    /\ bitlensum = 0
    /\ nibblecount = 0
    /\ nibble = 0
    /\ nibblestartsample = 0
    /\ out = <<>>
    /\ wbits = <<>>
    /\ log = <<>>
    /\ stale = 0
    /\ turn = 0
    /\ others = [python |-> <<>>, binary |-> <<>>, bitrate |-> <<>>]
    /\ inits = {}
    /\ sampled = <<>>
    /\ nibble2 = 0
    /\ out2 = <<>>

Init ==
    /\ clock_edge \in ClockEdges
    /\ wordlen \in (1 .. MaxWordLen) \cup {DefaultBits}
    /\ lsbfirst \in BOOLEAN
    /\ source = "any"
    /\ period = <<0, 0>>
    /\ InitState

InitRegular ==
    /\ clock_edge = DefaultClockEdge
    /\ wordlen = DefaultBits
    /\ lsbfirst \in BOOLEAN
    /\ source = "regular"
    /\ period = <<0, 0>>
    /\ InitState

InitSteady ==
    /\ clock_edge \in ClockEdges
    /\ wordlen \in 1 .. MaxWordLen
    /\ lsbfirst \in BOOLEAN
    /\ source = "steady"
    /\ period \in (1 .. MaxHalf) \X (1 .. MaxHalf)
    /\ InitState

(* ---------------------------- loop body ------------------------------- *)

\* lines 147-189: the body at an active edge, sample s, data level d
ActiveBody(s, d) ==
    LET pending  == bitlencount > 0
        average  == Average(bitlensum, bitlencount)
        truncate == pending /\ Truncates(bitlencount, s - bitstartsample, average)
        es       == IF truncate THEN bitstartsample + average * 4 ELSE s
        bitlen   == IF truncate THEN average * 4 ELSE s - bitstartsample
        nib1     == Fold(lsbfirst, nibble, lastbit, nibblecount)
        cnt1     == nibblecount + 1
        start1   == IF nibblestartsample = 0 THEN bitstartsample
                    ELSE nibblestartsample
        bits1    == Append(wbits, lastbit)
        flush    == WordComplete(cnt1, wordlen, truncate)
        bitAnn   == Ann(bitstartsample, es, 0, BitText(lastbit))
        wordAnn  == Ann(start1, es, 1, HexText(nib1))
        nib2     == Fold(~lsbfirst, nibble2, lastbit, nibblecount)
        wordAnn2 == Ann(start1, es, 1, HexText(nib2))
        counted  == pending /\ bitstartsample # 0
    IN  /\ IF pending
           THEN /\ out' = IF flush THEN out \o <<bitAnn, wordAnn>>
                          ELSE Append(out, bitAnn)
                /\ out2' = IF flush THEN out2 \o <<bitAnn, wordAnn2>>
                           ELSE Append(out2, bitAnn)
                /\ nibble2' = IF flush THEN 0 ELSE nib2
                /\ others' = PutOther(others, IF flush THEN <<bitAnn, wordAnn>>
                                               ELSE <<bitAnn>>)
                /\ log' = IF flush
                          THEN log \o <<Meta(1, truncate, FALSE, <<lastbit>>,
                                             s, lastsamplenum),
                                        Meta(cnt1, truncate, FALSE, bits1,
                                             s, lastsamplenum)>>
                          ELSE Append(log, Meta(1, truncate, FALSE, <<lastbit>>,
                                                s, lastsamplenum))
                /\ nibble' = IF flush THEN 0 ELSE nib1
                /\ nibblecount' = IF flush THEN 0 ELSE cnt1
                /\ nibblestartsample' = IF flush THEN 0 ELSE start1
                /\ wbits' = IF flush THEN <<>> ELSE bits1
           ELSE UNCHANGED <<out, log, nibble, nibblecount, nibblestartsample,
                            wbits, out2, nibble2, others>>
        /\ bitlencount' = bitlencount + CountStep(counted)
        /\ bitlensum' = bitlensum + (IF counted THEN bitlen ELSE 0)
        /\ bitstartsample' = s
        /\ lastbit' = d
        /\ lastsamplenum' = s
        /\ UNCHANGED inits

\* lines 191-193: an inactive edge while lastsamplenum == 0
InactiveInitBody(s) ==
    /\ bitstartsample' = s
    /\ nibblestartsample' = s
    /\ inits' = inits \cup {s}
    /\ UNCHANGED <<lastsamplenum, lastbit, bitlencount, bitlensum, nibblecount,
                   nibble, out, wbits, log, out2, nibble2, others>>

\* line 194 on: any other inactive edge
InactiveBody ==
    UNCHANGED <<lastsamplenum, bitstartsample, lastbit, bitlencount, bitlensum,
                nibblecount, nibble, nibblestartsample, out, wbits, log, out2,
                nibble2, others, inits>>

(* ------------------------------ actions ------------------------------- *)

Delivered(s, c, d) ==
    /\ pc = "run"
    /\ ~eof
    /\ samplenum' = s
    /\ clk' = c
    /\ sda' = d
    /\ UNCHANGED <<options, eof, pc, stale, turn>>

\* line 132 returns an active edge; lines 147-189
ActiveEdge(s, c, d) ==
    /\ Delivered(s, c, d)
    /\ IsActive(clock_edge, c)
    /\ sampled' = Append(sampled, d)
    /\ ActiveBody(s, d)

\* line 132 returns an inactive edge before any active edge; lines 191-193
InactiveEdgeInit(s, c, d) ==
    /\ Delivered(s, c, d)
    /\ ~IsActive(clock_edge, c)
    /\ lastsamplenum = 0
    /\ InactiveInitBody(s)
    /\ UNCHANGED sampled

\* line 132 returns any other inactive edge
InactiveEdge(s, c, d) ==
    /\ Delivered(s, c, d)
    /\ ~IsActive(clock_edge, c)
    /\ lastsamplenum # 0
    /\ InactiveBody
    /\ UNCHANGED sampled

\* line 132 raises, nibblecount > 0: lines 136-145
ExhaustedFlush ==
    /\ pc = "run"
    /\ nibblecount > 0
    /\ LET nib1    == Fold(lsbfirst, nibble, lastbit, nibblecount)
           average == Average(bitlensum, bitlencount)
           es      == bitstartsample + average
           nib2    == Fold(~lsbfirst, nibble2, lastbit, nibblecount)
           bitAnn  == Ann(bitstartsample, es, 0, BitText(lastbit))
           wordAnn == Ann(nibblestartsample, es, 1, HexText(nib1))
       IN  /\ nibble' = nib1
           /\ out' = out \o <<bitAnn, wordAnn>>
           /\ nibble2' = nib2
           /\ out2' = out2 \o <<bitAnn,
                                Ann(nibblestartsample, es, 1, HexText(nib2))>>
           /\ others' = PutOther(others, <<bitAnn, wordAnn>>)
           /\ log' = log \o <<Meta(1, FALSE, TRUE, <<lastbit>>,
                                   samplenum, lastsamplenum),
                              Meta(nibblecount + 1, FALSE, TRUE,
                                   Append(wbits, lastbit),
                                   samplenum, lastsamplenum)>>
    /\ eof' = TRUE
    /\ pc' = "EOFError"
    /\ UNCHANGED <<options, samplenum, clk, sda, lastsamplenum, bitstartsample,
                   lastbit, bitlencount, bitlensum, nibblecount,
                   nibblestartsample, wbits, stale, turn, inits, sampled>>

\* line 132 raises, nibblecount == 0, before any edge: line 147 reads the
\* unbound local clk
ExhaustedUnbound ==
    /\ pc = "run"
    /\ nibblecount = 0
    /\ clk = Unbound
    /\ eof' = TRUE
    /\ pc' = "UnboundLocalError"
    /\ UNCHANGED <<options, samplenum, clk, sda, lastsamplenum, bitstartsample,
                   lastbit, bitlencount, bitlensum, nibblecount, nibble,
                   nibblestartsample, out, wbits, log, stale, turn, others,
                   inits, sampled, nibble2, out2>>

Fallthrough ==
    /\ pc = "run"
    /\ nibblecount = 0
    /\ clk # Unbound
    /\ eof' = TRUE
    /\ turn' = 1 - turn
    /\ UNCHANGED <<options, samplenum, clk, sda, pc, sampled>>

\* line 132 raises, nibblecount == 0: the handler does not raise and the
\* body runs again on the last edge, which was active
StaleActive ==
    /\ Fallthrough
    /\ IsActive(clock_edge, clk)
    /\ stale < MaxStale
    /\ stale' = stale + 1
    /\ ActiveBody(samplenum, sda)

\* the same, the last edge was inactive and no active edge was seen
StaleInactiveInit ==
    /\ Fallthrough
    /\ ~IsActive(clock_edge, clk)
    /\ lastsamplenum = 0
    /\ InactiveInitBody(samplenum)
    /\ UNCHANGED stale

\* the same, the last edge was inactive
StaleInactive ==
    /\ Fallthrough
    /\ ~IsActive(clock_edge, clk)
    /\ lastsamplenum # 0
    /\ InactiveBody
    /\ UNCHANGED stale

Next ==
    \/ \E s \in NextSamples, c \in NextLevels, d \in {0, 1} :
          ActiveEdge(s, c, d)
    \/ \E s \in NextSamples, c \in NextLevels, d \in {0, 1} :
          InactiveEdgeInit(s, c, d)
    \/ \E s \in NextSamples, c \in NextLevels, d \in {0, 1} :
          InactiveEdge(s, c, d)
    \/ ExhaustedFlush
    \/ ExhaustedUnbound
    \/ StaleActive
    \/ StaleInactiveInit
    \/ StaleInactive

Spec == Init /\ [][Next]_vars

SpecRegular == InitRegular /\ [][Next]_vars

SpecSteady == InitSteady /\ [][Next]_vars

\* The loop never pauses of its own accord: some step is taken while one is
\* possible.
FairSpec == Init /\ [][Next]_vars /\ WF_vars(Next)

(* ===================== properties of the decoder ====================== *)

Bits == {i \in 1 .. Len(out) : out[i].cls = 0}
Words == {i \in 1 .. Len(out) : out[i].cls = 1}
Finals == {i \in 1 .. Len(out) : log[i].final}

\* The k-th bit annotation put (k = 1 is the first).
NthBit(k) == CHOOSE i \in Bits : Cardinality({j \in Bits : j <= i}) = k

\* The value of a bit list whose first-received bit is the high-order bit.
RECURSIVE ValueFirstHigh(_)
ValueFirstHigh(b) ==
    IF b = <<>> THEN 0
    ELSE 2 * ValueFirstHigh(SubSeq(b, 1, Len(b) - 1)) + b[Len(b)]

\* The value of a bit list whose first-received bit is the low-order bit.
RECURSIVE ValueFirstLow(_)
ValueFirstLow(b) ==
    IF b = <<>> THEN 0 ELSE b[1] + 2 * ValueFirstLow(Tail(b))

\* The packing the two option values select in the code: 'lsb first' shifts
\* left, so the first-received bit ends up high-order.
PackedValue(b) == IF lsbfirst THEN ValueFirstHigh(b) ELSE ValueFirstLow(b)

\* The least w with w * count >= sum, 0 when count is 0.
RoundedUpMean(sum, count) ==
    IF count = 0 THEN 0
    ELSE CHOOSE w \in 0 .. sum : w * count >= sum /\ (w = 0 \/ (w - 1) * count < sum)

Terminated == pc # "run"

\* The except handler has been left without raising at least once.
Replayed == stale > 0 \/ turn # 0

\* The distance between the active edge that ended annotation i's bit and the
\* active edge before it.
Period(i) == log[i].s - log[i].prev

(* C1: once the sample source has signalled exhaustion the run eventually   *)
(* reaches a terminal state (the decode loop has been left), whatever       *)
(* nibblecount is and whether the last edge was active or not.  Runs cut    *)
(* off by the exploration bound MaxStale are not counted against the claim. *)
C1_EventuallyTerminal == eof ~> (Terminated \/ stale >= MaxStale)

(* C2: on exhaustion with nibblecount > 0 the handler folds lastbit once,   *)
(* puts exactly one final bit annotation [bitstartsample, bitstartsample +  *)
(* average) and one final word annotation [nibblestartsample,               *)
(* bitstartsample + average), average the rounded-up mean (0 for count 0),  *)
(* these are the only annotations of the handler in the run, and nothing is *)
(* put after them.                                                          *)
C2_FinalFlush ==
    /\ [](pc = "EOFError" =>
            LET n == Len(out)
                average == RoundedUpMean(bitlensum, bitlencount)
                value == PackedValue(Append(wbits, lastbit))
            IN  /\ n >= 2
                /\ nibble = value
                /\ out[n - 1] = Ann(bitstartsample, bitstartsample + average,
                                    0, <<lastbit>>)
                /\ out[n] = Ann(nibblestartsample, bitstartsample + average,
                                1, HexText(value))
                /\ Finals = {n - 1, n})
    /\ [](pc = "run" => Finals = {})
    /\ [][Terminated => out' = out]_vars

C2_Witness ==
    /\ pc = "EOFError"
    /\ bitlencount > 0
    /\ bitlensum % bitlencount # 0
    /\ lastbit = 1
    /\ Len(out) > 2

(* C3 as stated: exhaustion with 3 bits folded into the word (width 8) puts *)
(* one final bit and one final word annotation, the word's value built from *)
(* exactly those 3 bits, and the run has terminated.  Stated for the runs   *)
(* in which the handler raised the first time wait raised.                  *)
C3_ValueOfThreeBits ==
    (pc = "EOFError" /\ wordlen = 8 /\ nibblecount = 3 /\ ~Replayed) =>
        /\ Cardinality(Finals \cap Bits) = 1
        /\ Cardinality(Finals \cap Words) = 1
        /\ out[Len(out)].text = HexText(PackedValue(wbits))

(* C3 amended: the final word's value is built from 4 bits: the 3 folded    *)
(* bits b1 b2 b3 (in reception order) and the pending bit lastbit, folded   *)
(* in as the fourth.                                                        *)
C3_ValueOfFourBits ==
    (pc = "EOFError" /\ wordlen = 8 /\ nibblecount = 3) =>
        LET b1 == wbits[1]
            b2 == wbits[2]
            b3 == wbits[3]
            b4 == lastbit
        IN  /\ Len(wbits) = 3
            /\ Cardinality(Finals \cap Bits) = 1
            /\ Cardinality(Finals \cap Words) = 1
            /\ out[Len(out)].cls = 1
            /\ log[Len(out)].final
            /\ out[Len(out)].text =
                   IF lsbfirst THEN <<8 * b1 + 4 * b2 + 2 * b3 + b4>>
                   ELSE <<b1 + 2 * b2 + 4 * b3 + 8 * b4>>
            /\ ~ENABLED Next

C3_Witness ==
    /\ pc = "EOFError"
    /\ wordlen = 8
    /\ nibblecount = 3
    /\ wbits = <<1, 0, 1>>
    /\ lastbit = 1

(* C4 as stated: every word annotation, the end-of-stream one included,     *)
(* holds exactly wordlen bits, unless truncation flushed it early, and then *)
(* between 1 and wordlen bits.  Stated for the runs in which the handler    *)
(* raised the first time wait raised.                                       *)
C4_WordWidthAlways ==
    \A i \in Words :
        \/ Replayed
        \/ log[i].n = wordlen
        \/ log[i].trunc /\ log[i].n \in 1 .. wordlen

(* C4 amended: every word annotation put at an active edge holds exactly    *)
(* wordlen bits, unless truncation flushed it early, and then between 1 and *)
(* wordlen bits; the word annotation of the end-of-stream flush holds       *)
(* between 2 and wordlen bits.                                              *)
C4_WordWidth ==
    \A i \in Words :
        /\ Len(log[i].bits) = log[i].n
        /\ IF log[i].final
           THEN log[i].n \in 2 .. wordlen
           ELSE \/ log[i].n = wordlen
                \/ log[i].trunc /\ log[i].n \in 1 .. wordlen

C4_Witness ==
    \E i, j \in Words :
        /\ log[i].final
        /\ log[i].n < wordlen
        /\ ~log[j].final
        /\ ~log[j].trunc
        /\ log[j].n = wordlen

(* C5: every bit annotation ends at or after its start, and each bit        *)
(* annotation ends at or before the start of every later one.               *)
C5_BitsOrdered ==
    \A i, j \in Bits :
        /\ out[i].es >= out[i].ss
        /\ i < j => out[i].es <= out[j].ss

C5_Witness ==
    /\ Cardinality(Bits) >= 4
    /\ \E i \in Bits : log[i].trunc /\ out[i].es > out[i].ss

(* C6: at an active edge with a bit pending, the bit is truncated iff       *)
(* bitlencount > 3 and its length exceeds 4 x average (strictly); then the  *)
(* bit annotation ends at bitstartsample + 4 x average and 4 x average is   *)
(* added to bitlensum; otherwise it ends at the edge.                       *)
C6_Truncation ==
    [][(pc = "run" /\ bitlencount > 0 /\ bitlencount' > bitlencount) =>
          LET average == RoundedUpMean(bitlensum, bitlencount)
              bitlen == samplenum' - bitstartsample
              outlier == bitlencount > 3 /\ bitlen > 4 * average
              k == Len(out) + 1
          IN  /\ Len(out') >= k
              /\ out'[k].cls = 0
              /\ out'[k].ss = bitstartsample
              /\ log'[k].trunc = outlier
              /\ outlier => /\ out'[k].es = bitstartsample + 4 * average
                            /\ bitlensum' = bitlensum + 4 * average
                            /\ bitlencount' = bitlencount + 2
              /\ ~outlier => /\ out'[k].es = samplenum'
                             /\ bitlensum' = IF bitstartsample # 0
                                             THEN bitlensum + bitlen
                                             ELSE bitlensum
                             /\ bitlencount' = IF bitstartsample # 0
                                               THEN bitlencount + 2
                                               ELSE bitlencount + 1
    ]_vars

C6_Witness ==
    \E i \in Bits :
        /\ log[i].trunc
        /\ out[i].es < log[i].s
        /\ out[i].es > out[i].ss

(* C7: after four bit periods of 10 samples and one of 50, the bit           *)
(* annotation of the 50-sample period is 40 samples wide, a word annotation  *)
(* is put at that edge, and nibblecount, nibble and nibblestartsample are 0  *)
(* after it.  Stated for a first active edge after sample 0.                 *)
C7_OutlierTruncatedTo40 ==
    (/\ ~Replayed
     /\ pc = "run"
     /\ Cardinality(Bits) = 5
     /\ log[NthBit(1)].prev > 0
     /\ \A k \in 1 .. 4 : Period(NthBit(k)) = 10
     /\ Period(NthBit(5)) = 50
     /\ samplenum = log[NthBit(5)].s) =>
        LET i == NthBit(5)
        IN  /\ out[i].es - out[i].ss = 40
            /\ Len(out) = i + 1
            /\ out[i + 1].cls = 1
            /\ nibblecount = 0
            /\ nibble = 0
            /\ nibblestartsample = 0

(* C8: with all bit periods of equal length L the running average           *)
(* converges to L: from some number of periods on (here at the latest from  *)
(* the 8th) the average the next active edge computes equals L.  Stated for *)
(* a first active edge after sample 0.                                      *)
C8_AverageConverges ==
    (/\ ~Replayed
     /\ pc = "run"
     /\ Cardinality(Bits) >= 8
     /\ log[NthBit(1)].prev > 0
     /\ \A i \in Bits : Period(i) = 2 * HalfPeriod) =>
        RoundedUpMean(bitlensum, bitlencount) = 2 * HalfPeriod

(* C9: width 8, bits 1,0,1,0,0,1,1,0 received in that order: the word value *)
(* is 0b10100110 (hex A6) under 'msb first' and 0b01100101 (hex 65) under   *)
(* 'lsb first'.                                                             *)
C9_BitOrderValues ==
    \A i \in Words :
        (wordlen = 8 /\ ~log[i].final /\ log[i].bits = <<1, 0, 1, 0, 0, 1, 1, 0>>) =>
            out[i].text = IF lsbfirst THEN <<6, 5>> ELSE <<10, 6>>

(* C10: rising active edges every 10 samples from sample 0, width 8: the    *)
(* first word annotation is preceded by exactly 8 bit annotations, each 10  *)
(* samples wide, spans samples 0 to 80 and carries the packed value of the  *)
(* 8 bits.                                                                  *)
C10_CleanWord ==
    (/\ clock_edge = "rising"
     /\ wordlen = 8
     /\ Words # {}
     /\ Cardinality(Bits) >= 8
     /\ log[NthBit(1)].prev = 0
     /\ \A k \in 1 .. 8 : Period(NthBit(k)) = 10) =>
        LET w == CHOOSE i \in Words : \A j \in Words : i <= j
        IN  /\ Cardinality({i \in Bits : i < w}) = 8
            /\ \A i \in Bits : i < w => out[i].es - out[i].ss = 10
            /\ out[w].ss = 0
            /\ out[w].es = 80
            /\ out[w].text = HexText(PackedValue(log[w].bits))

(* ------------------ helpers of the properties below ------------------- *)

\* The number a hexadecimal text denotes.
RECURSIVE HexValue(_)
HexValue(text) ==
    IF text = <<>> THEN 0
    ELSE 16 * HexValue(SubSeq(text, 1, Len(text) - 1)) + text[Len(text)]

\* The k-bit number whose bits are those of v in reverse order.
RECURSIVE ReverseBits(_, _)
ReverseBits(v, k) ==
    IF k = 0 THEN 0 ELSE (v % 2) * Pow2(k - 1) + ReverseBits(v \div 2, k - 1)

\* A step that ran the loop body on an edge wait returned.
EdgeStep == pc = "run" /\ clk' # clk

\* A step that ran the loop body again after wait raised.
ReplayStep == pc = "run" /\ pc' = "run" /\ turn' # turn

\* A step that ran the loop body at an active edge.
ActiveStep == (EdgeStep \/ ReplayStep) /\ IsActive(clock_edge, clk')

\* The bit values of the bit annotations among out[1..n], in order.
RECURSIVE BitValues(_)
BitValues(n) ==
    IF n = 0 THEN <<>>
    ELSE IF out[n].cls = 0 THEN Append(BitValues(n - 1), out[n].text[1])
    ELSE BitValues(n - 1)

\* The bits folded into the word annotations among out[1..n], in order.
RECURSIVE WordBits(_)
WordBits(n) ==
    IF n = 0 THEN <<>>
    ELSE IF out[n].cls = 1 THEN WordBits(n - 1) \o log[n].bits
    ELSE WordBits(n - 1)

\* The sample of the first active edge, once one was processed.
FirstActive == IF Bits = {} THEN lastsamplenum ELSE log[NthBit(1)].prev

C12_InitSuperseded ==
    \A x \in inits :
        (x > 0 /\ bitlencount > 0 /\ FirstActive > x) =>
            /\ bitstartsample # x
            /\ nibblestartsample # x
            /\ \A i \in 1 .. Len(out) : out[i].ss # x

(* C13: every word annotation put at an active edge starts where the first  *)
(* bit annotation folded into it starts and ends where the last one ends,   *)
(* and word annotations do not overlap.  Stated for the runs in which the   *)
(* handler raised the first time wait raised.                               *)
C13_WordSpansItsBits ==
    ~Replayed =>
        /\ \A i \in Words :
              ~log[i].final =>
                  /\ i - log[i].n >= 1
                  /\ out[i].ss = out[i - log[i].n].ss
                  /\ out[i].es = out[i - 1].es
        /\ \A i, j \in Words : i < j => out[i].es <= out[j].ss

(* C14: an inactive edge after the first active edge changes no field of    *)
(* the decoder and puts no annotation.                                      *)
C14_InactiveIsNoOp ==
    [][(EdgeStep /\ ~IsActive(clock_edge, clk') /\ bitlencount > 0) =>
          UNCHANGED <<lastsamplenum, bitstartsample, lastbit, bitlencount,
                      bitlensum, nibblecount, nibble, nibblestartsample, out,
                      others>>
    ]_vars

(* C15: an active edge adds 2 to bitlencount and the (possibly capped) bit  *)
(* length to bitlensum when a bit was pending and bitstartsample # 0, and   *)
(* otherwise adds 1 to bitlencount and leaves bitlensum; bitlencount grows  *)
(* at every active edge, bitlensum never decreases and lastsamplenum never  *)
(* decreases.                                                               *)
C15_DualIncrement ==
    [][/\ ActiveStep =>
            LET average == RoundedUpMean(bitlensum, bitlencount)
                bitlen == samplenum' - bitstartsample
                capped == IF bitlencount > 3 /\ bitlen > 4 * average
                          THEN 4 * average ELSE bitlen
            IN  /\ IF bitlencount > 0 /\ bitstartsample # 0
                   THEN /\ bitlencount' = bitlencount + 2
                        /\ bitlensum' = bitlensum + capped
                   ELSE /\ bitlencount' = bitlencount + 1
                        /\ bitlensum' = bitlensum
                /\ bitlencount' > bitlencount
       /\ ~ActiveStep => bitlencount' = bitlencount /\ bitlensum' = bitlensum
       /\ bitlensum' >= bitlensum
       /\ lastsamplenum' >= lastsamplenum
    ]_vars

C15_Witness ==
    /\ bitlencount > 5
    /\ bitlensum > 0
    /\ \E i \in Bits : log[i].trunc
    /\ \E i \in Bits : log[i].prev = 0

(* C16: nibblecount stays in 0..wordlen; an active edge with a bit pending  *)
(* puts a word annotation exactly when, the bit folded, the count reaches   *)
(* wordlen or the bit was truncated, and after it nibblecount, nibble and   *)
(* nibblestartsample are 0.                                                 *)
C16_WordFlush ==
    /\ [](nibblecount \in 0 .. wordlen)
    /\ [][(ActiveStep /\ bitlencount > 0) =>
             LET average == RoundedUpMean(bitlensum, bitlencount)
                 outlier == /\ bitlencount > 3
                            /\ samplenum' - bitstartsample > 4 * average
                 due == nibblecount + 1 >= wordlen \/ outlier
                 k == Len(out)
             IN  /\ Len(out') = IF due THEN k + 2 ELSE k + 1
                 /\ out'[k + 1].cls = 0
                 /\ due => /\ out'[k + 2].cls = 1
                           /\ nibblecount' = 0
                           /\ nibble' = 0
                           /\ nibblestartsample' = 0
                 /\ ~due => nibblecount' = nibblecount + 1
       ]_vars
    /\ [][(ActiveStep /\ bitlencount = 0) => out' = out]_vars

C16_Witness ==
    /\ \E i \in Words : ~log[i].final /\ log[i].trunc /\ log[i].n < wordlen
    /\ wordlen > 1

(* C17: when the run has terminated after exhaustion, the data levels       *)
(* sampled at the active edges are, in reception order, exactly the values  *)
(* of the bit annotations and exactly the bits folded into the word         *)
(* annotations: none lost, none twice.                                      *)
C17_NoBitLostOrTwice ==
    pc = "EOFError" =>
        /\ BitValues(Len(out)) = sampled
        /\ WordBits(Len(out)) = sampled

C20_ValueBelowPowerAlways ==
    ~Replayed =>
        /\ 0 <= nibble
        /\ nibble < Pow2(nibblecount)
        /\ \A i \in Words : HexValue(out[i].text) < Pow2(wordlen)

(* C20 amended: 0 <= nibble < 2^nibblecount in every state in which the     *)
(* loop is still running, and nibble < 2^(nibblecount + 1) once the         *)
(* end-of-stream flush has folded the last bit; every word value put is     *)
(* below 2^wordlen.                                                         *)
C20_ValueBelowPower ==
    /\ 0 <= nibble
    /\ pc = "run" => nibble < Pow2(nibblecount)
    /\ pc # "run" => nibble < Pow2(nibblecount + 1)
    /\ \A i \in Words :
          /\ HexValue(out[i].text) < Pow2(wordlen)
          /\ HexValue(out[i].text) < Pow2(log[i].n)

C20_Witness ==
    /\ pc = "EOFError"
    /\ nibble >= Pow2(nibblecount)
    /\ \E i \in Words : ~log[i].final /\ HexValue(out[i].text) = Pow2(wordlen) - 1
    /\ wordlen > 1

====
